---- MODULE Spec2Model ----
(***************************************************************************)
(* A model of the reaction-diffusion diagram of src/src/simulator.ts, as   *)
(* it is driven by src/unnamed/part_000 (the page script).                 *)
(*                                                                         *)
(* Numbers.  The program computes in floating point.  Here every real is   *)
(* an integer count of 1/Q, with Q = 255 * 20, so that the 8-bit levels of *)
(* the seed bitmap (k/255) and the decimal constants of the shader (0.2,   *)
(* 0.05, 0.7, 0.03, 0.06, 0.5) are all exact; a product is rounded down to *)
(* the grid.                                                               *)
(*                                                                         *)
(* Geometry.  A field is indexed by cell c = y * Size + x.  A Float32Array *)
(* is a sequence, element i of the array being element i + 1 of the        *)
(* sequence.  Only the channels x and y of a simulation texel are kept:    *)
(* the stencil reads .xy, the colouring reads .x, nothing reads .zw.       *)
(***************************************************************************)
EXTENDS Integers, Sequences, FiniteSets, TLC

(***************************************************************************)
(* Bounds of the model.                                                    *)
(***************************************************************************)
Size == 3                 \* params.size (the page uses 256)
IterationsPerTick == 2    \* params.iterations_per_tick (the page uses 20)
MaxTick == 2              \* frames modelled
MaxReloads == 2           \* consecutive reloadInitialBitmap calls counted
MaxUploads == 2           \* image uploads started

Q == 255 * 20
NCells == Size * Size
Cells == 0 .. (NCells - 1)

Mul(a, b) == (a * b) \div Q
Clamp01(v) == IF v < 0 THEN 0 ELSE IF v > Q THEN Q ELSE v

(***************************************************************************)
(* Inputs: the image data the page can hold, the fields callers pass to    *)
(* updateFeedMask, the records the parameter source can return.            *)
(***************************************************************************)
Stripes(n) == [i \in 1 .. n |-> IF i % 2 = 1 THEN Q ELSE 0]
Ramp(n) == [i \in 1 .. n |-> (i * Q) \div (NCells + 3)]

Images == {Stripes(NCells), Ramp(NCells)}
ConstructionMasks == {Ramp(NCells)}
UpdateFields == {Stripes(NCells), Ramp(NCells - 1), Stripes(NCells + 1), << >>}

ParamSet ==
    { [diffusion_rate |-> (7 * Q) \div 10, diffusion_step |-> Q,
       feed |-> f, kill |-> (6 * Q) \div 100, reset |-> r] :
          f \in {(3 * Q) \div 100}, r \in BOOLEAN }

VARIABLES
    buffer_textures,        \* [0..1 -> [Cells -> <<A, B>>]]
    currentOutputIn,        \* the role index
    feedMaskTexture,        \* [present, data]: present = FALSE is undefined
    defaultSample,          \* what sampling the stand-in { min: 0, max: 0 } yields
    source_bitmap,          \* the seed canvas: [Cells -> <<r, g, b, a>>], bytes
    initialConcentrations,  \* the page's image data, read by initial_bitmap
    tick,                   \* context.tick
    screen,                 \* the colours last drawn, [Cells -> 0 | Q]
    log,                    \* what the last frame callback did, in order, while
                            \* no other handler has run since
    lastRender,             \* the last render into a simulation buffer
    lastUpdate,             \* the last updateFeedMask call
    paintedFrom,            \* the image data the last initial_bitmap call read
    reloads,                \* reloadInitialBitmap calls in a row, up to MaxReloads
    lastSeed                \* the last reset(): the bitmap it painted, the
                            \* page's image data at that moment, the role
                            \* index it found, whether it found a buffer that
                            \* was not blank, and the parameters of the steps
                            \* made since
VARIABLE
    uploads                 \* the page's uploads: the files whose decode is
                            \* pending, in the order they were chosen, how
                            \* many were chosen so far, and whether a decode
                            \* has overtaken an earlier one

vars == << buffer_textures, currentOutputIn, feedMaskTexture, defaultSample,
           source_bitmap, initialConcentrations, tick, screen, log,
           lastRender, lastUpdate, paintedFrom, reloads, lastSeed, uploads >>

(***************************************************************************)
(* The log.  One record per thing a handler does.                          *)
(***************************************************************************)
NoU == [diffusion_rate |-> 0, diffusion_step |-> 0, feed |-> 0, kill |-> 0,
        reset |-> FALSE]
NoRender == [op |-> "none", tick |-> 0, rd |-> 0 - 1, wr |-> 0 - 1,
             pre |-> 0 - 1, post |-> 0 - 1, seed |-> << >>]
Ev == [op |-> "", tick |-> 0, u |-> NoU, rd |-> 0 - 1, wr |-> 0 - 1,
       pre |-> 0 - 1, post |-> 0 - 1, prev |-> NoRender, lf |-> << >>,
       cv |-> "", vs |-> ""]
NoSeed == [bitmap |-> << >>, data |-> << >>, us |-> << >>, cur |-> 0,
           dirty |-> FALSE]
NoUploads == [pending |-> << >>, started |-> 0, crossed |-> FALSE]
NoUpdate == [called |-> FALSE, arg |-> << >>, mask |-> << >>,
             handed |-> FALSE, warned |-> FALSE]

(***************************************************************************)
(* The seed bitmap.                                                        *)
(***************************************************************************)
\* ctx.fillStyle = "black"; ctx.fillRect(0, 0, size, size)
fillRect == [c \in Cells |-> << 0, 0, 0, 255 >>]

\* initial_bitmap of the page: a grey, opaque pixel per element of the image
\* data, put over the canvas from (0, 0).
brightness(value) == (255 * Clamp01(value)) \div Q

initial_bitmap(canvas, data) ==
    [c \in Cells |->
        IF c + 1 \in DOMAIN data
        THEN << brightness(data[c + 1]), brightness(data[c + 1]),
                brightness(data[c + 1]), 255 >>
        ELSE canvas[c]]

\* A texture whose alpha is half that of the canvas.
source_texture_translucent(bitmap) ==
    [c \in Cells |-> [k \in 1 .. 4 |-> IF k = 4 THEN (bitmap[c][k] * Q) \div 510
                                       ELSE (bitmap[c][k] * Q) \div 255]]

\* regl.texture({ data: source_bitmap }): bytes become k/255.
source_texture(bitmap) ==
    [c \in Cells |-> [k \in 1 .. 4 |-> (bitmap[c][k] * Q) \div 255]]

(***************************************************************************)
(* The shaders.                                                            *)
(***************************************************************************)
mix(x, y, a) == Mul(x, Q - a) + Mul(y, a)

\* A paint that weighs the old texel, not the new one, by the new alpha.
paint_from_bitmap_keeps_old(u_old, u_new) ==
    [c \in Cells |-> << mix(u_new[c][1], u_old[c][1], u_new[c][4]),
                        mix(u_new[c][2], u_old[c][2], u_new[c][4]) >>]

\* gl_FragColor = mix(old, new_texel, new_texel.a)
paint_from_bitmap(u_old, u_new) ==
    [c \in Cells |-> << mix(u_old[c][1], u_new[c][1], u_new[c][4]),
                        mix(u_old[c][2], u_new[c][2], u_new[c][4]) >>]


\* texture2D on a simulation texture (mag/min "linear", wrap "repeat"), at the
\* centre of cell c moved by (ox, oy) cells, both in units of 1/Q: the
\* bilinear mix of the four texels around the point, indices wrapping.
\* A fetch that clamps at the edges instead of wrapping.
texel_clamped(tex, x, y) ==
    LET cl(i) == IF i < 0 THEN 0 ELSE IF i > Size - 1 THEN Size - 1 ELSE i
    IN  tex[cl(y) * Size + cl(x)]

texel(tex, x, y) == tex[(y % Size) * Size + (x % Size)]

texture2D(tex, c, ox, oy) ==
    LET x == c % Size
        y == c \div Size
        ix == ox \div Q
        iy == oy \div Q
        fx == ox - ix * Q
        fy == oy - iy * Q
        t00 == texel(tex, x + ix, y + iy)
        t10 == texel(tex, x + ix + 1, y + iy)
        t01 == texel(tex, x + ix, y + iy + 1)
        t11 == texel(tex, x + ix + 1, y + iy + 1)
    IN  IF fx = 0 /\ fy = 0 THEN t00
        ELSE [k \in 1 .. 2 |-> mix(mix(t00[k], t10[k], fx), mix(t01[k], t11[k], fx), fy)]

weight_cardinal == Q \div 5
weight_diagonal == Q \div 20

\* vec2 diffusion(vec2 pos, float step)
diffusion(tex, c, step) ==
    LET w == texture2D(tex, c, 0 - step, 0)
        e == texture2D(tex, c, step, 0)
        s == texture2D(tex, c, 0, 0 - step)
        n == texture2D(tex, c, 0, step)
        sw == texture2D(tex, c, 0 - step, 0 - step)
        se == texture2D(tex, c, step, 0 - step)
        nw == texture2D(tex, c, 0 - step, step)
        ne == texture2D(tex, c, step, step)
    IN  [k \in 1 .. 2 |->
            Mul(weight_cardinal, w[k] + e[k] + s[k] + n[k])
          + Mul(weight_diagonal, sw[k] + se[k] + nw[k] + ne[k])]

\* float local_feed = feed * texture2D(feed_mask, v_uv).x  (nearest texel)
local_feed(p, c) == Mul(p.feed, p.feed_mask[c + 1])

\* main() of the stencil shader, for the cell c, under the uniforms p.
\* diffusion_step / resolution is a distance in texture widths, Size cells each.
stencil(p, c) ==
    LET center == texture2D(p.u_texture, c, 0, 0)
        d == diffusion(p.u_texture, c, (p.diffusion_step * Size) \div p.resolution)
        blur == [k \in 1 .. 2 |-> d[k] - center[k]]
        A == center[1]
        B == center[2]
        reaction == Mul(Mul(A, B), B)
        lf == local_feed(p, c)
        diffA == Mul(p.diffusion_rate, blur[1]) - reaction + Mul(lf, Q - A)
        diffB == Mul(Mul(p.diffusion_rate, Q \div 2), blur[2]) + reaction
                   - Mul(p.kill + lf, B)
    IN  << A + Mul(p.dt, diffA), B + Mul(p.dt, diffB) >>

karlsims_reactiondiffusion(p) == [c \in Cells |-> stencil(p, c)]

\* colorize_glsl of the page: vec3(step(texture2D(u_new, v_uv).x, 0.5)),
\* step(edge, x) being 0 if x < edge and 1 otherwise.
colorize_glsl(old, new) == IF Q \div 2 < new[1] THEN 0 ELSE Q

\* The draw shader.  Its vertex shader flips y, so that row 0 of the texture
\* is the top row of the canvas: the screen is indexed from the top.
draw(u_old, u_new) == [c \in Cells |-> colorize_glsl(u_old[c], u_new[c])]

(***************************************************************************)
(* The session: reset, run, and the uniforms of one step.                  *)
(* A machine m is [tex, cur, log, last, note]: the two textures, the role   *)
(* index, the log so far, the last render and the note of the last reset.  *)
(***************************************************************************)
Merge(a, b) ==
    [k \in (DOMAIN a) \cup (DOMAIN b) |-> IF k \in DOMAIN b THEN b[k] ELSE a[k]]

\* feedMaskTexture || { min: 0, max: 0 }.  The stand-in is no texture; the
\* value the shader reads through it is not fixed by this code, and is the
\* same in every cell: defaultSample, chosen when the session is made.
feed_mask_prop(fmt, dflt) ==
    IF fmt.present THEN fmt.data ELSE [i \in 1 .. NCells |-> dflt]

\* { u_texture, resolution: params.size, dt: 1.0, ...u, feed_mask: ... }
step_props(u_texture, u, fmt, dflt) ==
    Merge(Merge([u_texture |-> u_texture, resolution |-> Size, dt |-> Q], u),
          [feed_mask |-> feed_mask_prop(fmt, dflt)])

\* A reset that renders into the other framebuffer.
reset_framebuffer_other(cur) == 1 - cur

\* reset(): the framebuffer it renders into, and the texture it samples as u_old
reset_framebuffer(cur) == cur
reset_u_old(cur) == 1 - cur

reset(m, t, bitmap) ==
    LET w == reset_framebuffer(m.cur)
        r == reset_u_old(m.cur)
    IN  [tex |-> [m.tex EXCEPT
                     ![w] = paint_from_bitmap(m.tex[r], source_texture(bitmap))],
         cur |-> m.cur,
         log |-> Append(m.log, [Ev EXCEPT !.op = "reset", !.tick = t, !.rd = r,
                                          !.wr = w, !.pre = m.cur,
                                          !.post = m.cur, !.prev = m.last]),
         last |-> [op |-> "reset", tick |-> t, rd |-> r, wr |-> w,
                   pre |-> m.cur, post |-> m.cur, seed |-> bitmap],
         note |-> [m.note EXCEPT !.bitmap = bitmap, !.us = << >>,
                                 !.cur = m.cur,
                                 !.dirty = \E i \in 0 .. 1, c \in Cells :
                                              m.tex[i][c] # << 0, 0 >>]]

\* run(fn), fn being the stencil step under the uniforms of this iteration
\* A run that renders into the buffer it samples.
nextOutputIn_same(cur) == cur

nextOutputIn(cur) == 1 - cur

\* A run that samples the buffer it renders into.
run_u_texture_written(cur) == 1 - cur

run_u_texture(cur) == cur

run(m, u, t, fmt, dflt) ==
    LET w == nextOutputIn(m.cur)
        r == run_u_texture(m.cur)
        p == step_props(m.tex[r], u, fmt, dflt)
    IN  [tex |-> [m.tex EXCEPT ![w] = karlsims_reactiondiffusion(p)],
         cur |-> w,
         log |-> Append(m.log, [Ev EXCEPT !.op = "run", !.tick = t, !.u = u,
                                          !.rd = r, !.wr = w, !.pre = m.cur,
                                          !.post = w, !.prev = m.last,
                                          !.lf = [c \in Cells |-> local_feed(p, c)]]),
         last |-> [op |-> "run", tick |-> t, rd |-> r, wr |-> w,
                   pre |-> m.cur, post |-> w, seed |-> << >>],
         note |-> [m.note EXCEPT !.us = Append(@, u)]]

\* One pass of the loop body: the parameter source, the reset it may ask
\* for, the step.
iteration(m, u, t, bitmap, fmt, dflt) ==
    LET m1 == [m EXCEPT !.log = Append(@, [Ev EXCEPT !.op = "uniforms",
                                                     !.tick = t, !.u = u])]
        m2 == IF u.reset THEN reset(m1, t, bitmap) ELSE m1
    IN  run(m2, u, t, fmt, dflt)

\* A loop that stops one pass early.
iterations_per_tick_short == IterationsPerTick - 1

\* for (let iterate = 0; iterate < params.iterations_per_tick; iterate++)
iterations_per_tick == IterationsPerTick

RECURSIVE loop(_, _, _, _, _, _, _)
loop(m, us, iterate, t, bitmap, fmt, dflt) ==
    IF iterate < iterations_per_tick
    THEN CHOOSE r \in {loop(n, us, iterate + 1, t, bitmap, fmt, dflt) :
                          n \in {iteration(m, us[iterate + 1], t, bitmap,
                                           fmt, dflt)}} : TRUE
    ELSE m

\* A guard that looks at the canvas only.
skip_frame_canvas_only(cv, vs) == cv = "hidden"

\* the guard of the frame callback
skip_frame(cv, vs) == cv = "hidden" \/ vs = "hidden"

\* A normalisation that truncates but does not pad.
fixed_unpadded(newFeedMask) ==
    [i \in 1 .. (IF Len(newFeedMask) < NCells THEN Len(newFeedMask) ELSE NCells)
        |-> newFeedMask[i]]

\* updateFeedMask: fixed.set(newFeedMask.subarray(0, expectedLength))
fixed(newFeedMask) ==
    [i \in 1 .. NCells |-> IF i <= Len(newFeedMask) THEN newFeedMask[i] ELSE 0]

normalized(newFeedMask) ==
    IF Len(newFeedMask) # NCells THEN fixed(newFeedMask) ELSE newFeedMask

(***************************************************************************)
(* The state after makeReactionDiffusionDiagram returns.                   *)
(***************************************************************************)
Blank == [c \in Cells |-> << 0, 0 >>]
Machine == [tex |-> buffer_textures, cur |-> currentOutputIn,
            log |-> << >>, last |-> lastRender, note |-> lastSeed]

Init ==
    /\ initialConcentrations \in Images
    /\ source_bitmap = initial_bitmap(fillRect, initialConcentrations)
    /\ feedMaskTexture \in
          {[present |-> FALSE, data |-> << >>]}
             \cup {[present |-> TRUE, data |-> d] : d \in ConstructionMasks}
    /\ defaultSample \in {0, Q}
    /\ LET m == reset([tex |-> [i \in 0 .. 1 |-> Blank], cur |-> 0,
                       log |-> << >>, last |-> NoRender,
                       note |-> [NoSeed EXCEPT !.data = initialConcentrations]],
                      0, source_bitmap)
       IN  /\ buffer_textures = m.tex
           /\ currentOutputIn = m.cur
           /\ lastRender = m.last
           /\ lastSeed = m.note
    /\ log = << >>
    /\ tick = 0
    /\ screen = [c \in Cells |-> 0]
    /\ lastUpdate = NoUpdate
    /\ paintedFrom = initialConcentrations
    /\ reloads = 0
    /\ uploads = NoUploads

(***************************************************************************)
(* The handlers.                                                           *)
(***************************************************************************)
\* What the frame callback reads of its surroundings: canvas.dataset.visible
\* and document.visibilityState.
DatasetVisible == {"visible", "hidden"}
VisibilityStates == {"visible", "hidden"}

\* What the parameter source returns over the passes of one frame.
Uniforms == [1 .. IterationsPerTick -> ParamSet]

\* A frame while the canvas or the document is hidden.
FrameSkipped(cv, vs) ==
    /\ tick < MaxTick
    /\ skip_frame(cv, vs)
    /\ tick' = tick + 1
    /\ log' = << >>
    /\ reloads' = 0
    /\ UNCHANGED << buffer_textures, currentOutputIn, feedMaskTexture,
                    defaultSample, source_bitmap, initialConcentrations,
                    screen, lastRender, lastUpdate, paintedFrom, lastSeed, uploads >>

\* A frame that runs: us[i] is what the parameter source returns in pass i.
Frame(cv, vs, us) ==
    /\ tick < MaxTick
    /\ ~ skip_frame(cv, vs)
    /\ tick' = tick + 1
    /\ \E m \in {loop([Machine EXCEPT
                            !.log = << [Ev EXCEPT !.op = "frame",
                                                  !.tick = tick + 1,
                                                  !.cv = cv, !.vs = vs] >>],
                       us, 0, tick + 1, source_bitmap, feedMaskTexture,
                       defaultSample)} :
           /\ buffer_textures' = m.tex
           /\ currentOutputIn' = m.cur
           /\ lastRender' = m.last
           /\ screen' = draw(m.tex[m.cur], m.tex[1 - m.cur])
           /\ log' = Append(m.log, [Ev EXCEPT !.op = "draw", !.tick = tick + 1,
                                              !.pre = m.cur, !.post = m.cur])
           /\ lastSeed' = IF \E i \in DOMAIN us : us[i].reset
                          THEN [m.note EXCEPT !.data = initialConcentrations]
                          ELSE m.note
    /\ reloads' = 0
    /\ UNCHANGED << feedMaskTexture, defaultSample, source_bitmap,
                    initialConcentrations, lastUpdate, paintedFrom, uploads >>

\* The frame callback as a whole.
FrameCallback(cv, vs, us) == FrameSkipped(cv, vs) \/ Frame(cv, vs, us)

\* A reset() that has the caller's procedure repaint the seed bitmap first.
Reset_repaints ==
    /\ source_bitmap' = initial_bitmap(fillRect, initialConcentrations)
    /\ paintedFrom' = initialConcentrations
    /\ \E m \in {reset(Machine, tick, source_bitmap')} :
           /\ buffer_textures' = m.tex
           /\ currentOutputIn' = m.cur
           /\ lastRender' = m.last
           /\ lastSeed' = [m.note EXCEPT !.data = initialConcentrations]
    /\ log' = << >>
    /\ reloads' = 0
    /\ UNCHANGED << feedMaskTexture, defaultSample, initialConcentrations,
                    tick, screen, lastUpdate, uploads >>

\* reset() called from outside a frame (the reset button, the upload handler).
Reset ==
    /\ \E m \in {reset(Machine, tick, source_bitmap)} :
           /\ buffer_textures' = m.tex
           /\ currentOutputIn' = m.cur
           /\ lastRender' = m.last
           /\ lastSeed' = [m.note EXCEPT !.data = initialConcentrations]
    /\ log' = << >>
    /\ reloads' = 0
    /\ UNCHANGED << feedMaskTexture, defaultSample, source_bitmap,
                    initialConcentrations, tick, screen, lastUpdate,
                    paintedFrom, uploads >>

\* An updateFeedMask that re-seeds the simulation as it replaces the mask.
UpdateFeedMask_reseeds(newFeedMask) ==
    /\ \E m \in {reset(Machine, tick, source_bitmap)} :
           /\ buffer_textures' = m.tex
           /\ currentOutputIn' = m.cur
           /\ lastRender' = m.last
    /\ feedMaskTexture' =
          IF feedMaskTexture.present
          THEN [present |-> TRUE, data |-> normalized(newFeedMask)]
          ELSE feedMaskTexture
    /\ lastUpdate' = [called |-> TRUE, arg |-> newFeedMask,
                      mask |-> normalized(newFeedMask),
                      handed |-> feedMaskTexture.present,
                      warned |-> Len(newFeedMask) # NCells]
    /\ log' = << >>
    /\ reloads' = 0
    /\ UNCHANGED << defaultSample, source_bitmap, initialConcentrations, tick,
                    screen, paintedFrom, lastSeed, uploads >>

UpdateFeedMask(newFeedMask) ==
    LET mismatch == Len(newFeedMask) # NCells
        data == normalized(newFeedMask)
    IN  /\ feedMaskTexture' =
              IF feedMaskTexture.present
              THEN [present |-> TRUE, data |-> data]
              ELSE feedMaskTexture
        /\ lastUpdate' = [called |-> TRUE, arg |-> newFeedMask, mask |-> data,
                          handed |-> feedMaskTexture.present,
                          warned |-> mismatch]
        /\ log' = << >>
        /\ reloads' = 0
        /\ UNCHANGED << buffer_textures, currentOutputIn, defaultSample,
                        source_bitmap, initialConcentrations, tick, screen,
                        lastRender, paintedFrom, lastSeed, uploads >>

\* A reloadInitialBitmap that also re-seeds the simulation.
ReloadInitialBitmap_reseeds ==
    /\ source_bitmap' = initial_bitmap(fillRect, initialConcentrations)
    /\ \E m \in {reset(Machine, tick, source_bitmap')} :
           /\ buffer_textures' = m.tex
           /\ currentOutputIn' = m.cur
           /\ lastRender' = m.last
    /\ paintedFrom' = initialConcentrations
    /\ reloads' = IF reloads < MaxReloads THEN reloads + 1 ELSE reloads
    /\ log' = << >>
    /\ UNCHANGED << feedMaskTexture, defaultSample, initialConcentrations,
                    tick, screen, lastUpdate, lastSeed, uploads >>

\* reloadInitialBitmap(): the canvas is cleared and filled black under the
\* identity transform, then the caller's procedure paints over it.
ReloadInitialBitmap ==
    /\ source_bitmap' = initial_bitmap(fillRect, initialConcentrations)
    /\ paintedFrom' = initialConcentrations
    /\ reloads' = IF reloads < MaxReloads THEN reloads + 1 ELSE reloads
    /\ log' = << >>
    /\ UNCHANGED << buffer_textures, currentOutputIn, feedMaskTexture,
                    defaultSample, initialConcentrations, tick, screen,
                    lastRender, lastUpdate, lastSeed, uploads >>

\* The page overwrites its image data: initialConcentrations.set(...)
SetImageData(data) ==
    /\ data # initialConcentrations
    /\ initialConcentrations' = data
    /\ log' = << >>
    /\ reloads' = 0
    /\ UNCHANGED << buffer_textures, currentOutputIn, feedMaskTexture,
                    defaultSample, source_bitmap, tick, screen, lastRender,
                    lastUpdate, paintedFrom, lastSeed, uploads >>

Next ==
    \/ \E cv \in DatasetVisible, vs \in VisibilityStates : FrameSkipped(cv, vs)
    \/ \E cv \in DatasetVisible, vs \in VisibilityStates, us \in Uniforms :
          Frame(cv, vs, us)
    \/ Reset
    \/ \E f \in UpdateFields : UpdateFeedMask(f)
    \/ ReloadInitialBitmap
    \/ \E d \in Images : SetImageData(d)

Spec == Init /\ [][Next]_vars

(***************************************************************************)
(* The session as a library: the caller's initial_bitmap procedure may     *)
(* paint any pixels (putImageData writes alpha as given), and the caller   *)
(* may hand any mask.  LibrarySpec drives one session, built with some     *)
(* bitmap and some mask, through single passes of the frame loop, reset()  *)
(* and reloadInitialBitmap().                                              *)
(***************************************************************************)
\* one cell red, the rest black: A = 1 in the cell p, A = 0 elsewhere, B = 0
PointBitmap(p) ==
    [c \in Cells |-> IF c = p THEN << 255, 0, 0, 255 >> ELSE << 0, 0, 0, 255 >>]

\* A = 1, B = 0 all over, but for the cell p
BlobBitmap(p) ==
    [c \in Cells |-> IF c = p THEN << 128, 64, 0, 255 >> ELSE << 255, 0, 0, 255 >>]

\* pixels of alpha 0, 128/255 and 1, by column
TranslucentBitmap ==
    [c \in Cells |-> IF c % Size = 0 THEN << 0, 0, 0, 0 >>
                     ELSE IF c % Size = 1 THEN << 204, 102, 0, 128 >>
                     ELSE << 51, 153, 0, 255 >>]

Bitmaps == {PointBitmap(0), PointBitmap(NCells \div 2),
            BlobBitmap(NCells \div 2), TranslucentBitmap}

\* Records a caller's parameter source may return: those of the page, and
\* records that carry further keys.
ExtraKeys ==
    { [diffusion_rate |-> (7 * Q) \div 10, diffusion_step |-> Q,
       feed |-> (3 * Q) \div 100, kill |-> (6 * Q) \div 100, reset |-> FALSE,
       dt |-> Q \div 2],
      [diffusion_rate |-> (7 * Q) \div 10, diffusion_step |-> Q,
       feed |-> (3 * Q) \div 100, kill |-> (6 * Q) \div 100, reset |-> FALSE,
       dt |-> Q \div 2, resolution |-> 1,
       u_texture |-> [c \in Cells |-> << 0, 0 >>],
       feed_mask |-> [i \in 1 .. NCells |-> 0]] }
CallerParamSet == ParamSet \cup ExtraKeys

OnesMask == [i \in 1 .. NCells |-> Q]
LibraryMasks == {OnesMask, Ramp(NCells)}

LibraryInit ==
    /\ initialConcentrations = << >>
    /\ source_bitmap \in Bitmaps
    /\ feedMaskTexture \in {[present |-> TRUE, data |-> d] : d \in LibraryMasks}
    /\ defaultSample = 0
    /\ LET m == reset([tex |-> [i \in 0 .. 1 |-> Blank], cur |-> 0,
                       log |-> << >>, last |-> NoRender,
                       note |-> [NoSeed EXCEPT !.data = initialConcentrations]],
                      0, source_bitmap)
       IN  /\ buffer_textures = m.tex
           /\ currentOutputIn = m.cur
           /\ lastRender = m.last
           /\ lastSeed = m.note
    /\ log = << >>
    /\ tick = 0
    /\ screen = [c \in Cells |-> 0]
    /\ lastUpdate = NoUpdate
    /\ paintedFrom = << >>
    /\ reloads = 0
    /\ uploads = NoUploads

\* One pass of the frame loop, under the record u of the parameter source.
Pass(u) ==
    /\ tick < MaxTick
    /\ tick' = tick + 1
    /\ \E m \in {iteration([Machine EXCEPT !.log = << >>], u, tick + 1,
                            source_bitmap, feedMaskTexture, defaultSample)} :
           /\ buffer_textures' = m.tex
           /\ currentOutputIn' = m.cur
           /\ lastRender' = m.last
           /\ log' = m.log
           /\ lastSeed' = m.note
    /\ reloads' = 0
    /\ UNCHANGED << feedMaskTexture, defaultSample, source_bitmap,
                    initialConcentrations, screen, lastUpdate, paintedFrom, uploads >>

\* reloadInitialBitmap() with a procedure that paints the bitmap b.
ReloadWith(b) ==
    /\ source_bitmap' = b
    /\ reloads' = IF reloads < MaxReloads THEN reloads + 1 ELSE reloads
    /\ log' = << >>
    /\ UNCHANGED << buffer_textures, currentOutputIn, feedMaskTexture,
                    defaultSample, initialConcentrations, tick, screen,
                    lastRender, lastUpdate, paintedFrom, lastSeed, uploads >>

LibraryNext ==
    \/ \E u \in CallerParamSet : Pass(u)
    \/ Reset
    \/ \E b \in Bitmaps : ReloadWith(b)

LibrarySpec == LibraryInit /\ [][LibraryNext]_vars

(***************************************************************************)
(* The page.  An image is its pixels, << r, g, b >> bytes, already of the  *)
(* simulation's size (drawImage scales to it).  PageSpec drives the        *)
(* session the page builds through frames, the reset button and uploads;   *)
(* an upload is two steps, the change event up to its await, and the rest  *)
(* of the handler once the decode has resolved.                            *)
(***************************************************************************)
GreyFile == [i \in 1 .. NCells |-> << (i * 255) \div NCells,
                                       (i * 255) \div NCells,
                                       (i * 255) \div NCells >>]
ColourFile == [i \in 1 .. NCells |-> IF i % 2 = 1 THEN << 255, 0, 0 >>
                                                   ELSE << 0, 255, 255 >>]
SpotFile == [i \in 1 .. NCells |-> IF i = (NCells \div 2) + 1
                                   THEN << 255, 255, 255 >>
                                   ELSE << 0, 0, 0 >>]
Files == {GreyFile, ColourFile, SpotFile}

\* get_image_data: luminance / 255 per pixel
get_image_data(bitmap) ==
    [i \in 1 .. NCells |->
        ((299 * bitmap[i][1] + 587 * bitmap[i][2] + 114 * bitmap[i][3]) * Q)
           \div (1000 * 255)]

\* enhanceEdges: zeros for data of the wrong length; else, in the interior,
\* the datum plus its discrete Laplacian, clamped; the border stays zero.
enhanceEdges(data, size) ==
    IF Len(data) # size * size THEN [i \in 1 .. (size * size) |-> 0]
    ELSE [i \in 1 .. (size * size) |->
            LET x == (i - 1) % size
                y == (i - 1) \div size
            IN  IF x >= 1 /\ x < size - 1 /\ y >= 1 /\ y < size - 1
                THEN Clamp01(data[i] + 4 * data[i] - data[i - 1] - data[i + 1]
                                - data[i - size] - data[i + size])
                ELSE 0]

PageInit ==
    /\ initialConcentrations \in {get_image_data(f) : f \in Files}
    /\ source_bitmap = initial_bitmap(fillRect, initialConcentrations)
    /\ feedMaskTexture =
          [present |-> TRUE, data |-> enhanceEdges(initialConcentrations, Size)]
    /\ defaultSample = 0
    /\ LET m == reset([tex |-> [i \in 0 .. 1 |-> Blank], cur |-> 0,
                       log |-> << >>, last |-> NoRender,
                       note |-> [NoSeed EXCEPT !.data = initialConcentrations]],
                      0, source_bitmap)
       IN  /\ buffer_textures = m.tex
           /\ currentOutputIn = m.cur
           /\ lastRender = m.last
           /\ lastSeed = m.note
    /\ log = << >>
    /\ tick = 0
    /\ screen = [c \in Cells |-> 0]
    /\ lastUpdate = NoUpdate
    /\ paintedFrom = initialConcentrations
    /\ reloads = 0
    /\ uploads = NoUploads

\* The change event of the file input, up to the await: with a file chosen
\* the decode starts, with none the handler returns.
UploadChange(files) ==
    /\ uploads.started < MaxUploads
    /\ uploads' = IF Len(files) = 0 THEN uploads
                  ELSE [uploads EXCEPT !.pending = Append(@, files[1]),
                                       !.started = @ + 1]
    /\ log' = << >>
    /\ reloads' = 0
    /\ UNCHANGED << buffer_textures, currentOutputIn, feedMaskTexture,
                    defaultSample, source_bitmap, initialConcentrations, tick,
                    screen, lastRender, lastUpdate, paintedFrom, lastSeed >>

Remove(seq, i) == SubSeq(seq, 1, i - 1) \o SubSeq(seq, i + 1, Len(seq))

\* A handler that goes on without reloadInitialBitmap().
UploadDecoded_no_reload(i) ==
    LET newConcentrations == get_image_data(uploads.pending[i])
        newEnhancedEdges == enhanceEdges(newConcentrations, Size)
    IN  /\ i \in 1 .. Len(uploads.pending)
        /\ initialConcentrations' = newConcentrations
        /\ feedMaskTexture' =
              IF feedMaskTexture.present
              THEN [present |-> TRUE, data |-> normalized(newEnhancedEdges)]
              ELSE feedMaskTexture
        /\ lastUpdate' = [called |-> TRUE, arg |-> newEnhancedEdges,
                          mask |-> normalized(newEnhancedEdges),
                          handed |-> feedMaskTexture.present,
                          warned |-> Len(newEnhancedEdges) # NCells]
        /\ \E m \in {reset(Machine, tick, source_bitmap)} :
               /\ buffer_textures' = m.tex
               /\ currentOutputIn' = m.cur
               /\ lastRender' = m.last
               /\ lastSeed' = [m.note EXCEPT !.data = newConcentrations]
        /\ uploads' = [uploads EXCEPT !.pending = Remove(@, i),
                                      !.crossed = @ \/ i > 1]
        /\ log' = << >>
        /\ reloads' = 0
        /\ UNCHANGED << defaultSample, source_bitmap, paintedFrom, tick,
                        screen >>

\* The rest of the upload handler, once the decode of the i-th pending file
\* has resolved: no await in it, so it runs from start to end with nothing
\* in between.
UploadDecoded(i) ==
    LET newConcentrations == get_image_data(uploads.pending[i])
        newEnhancedEdges == enhanceEdges(newConcentrations, Size)
    IN  /\ i \in 1 .. Len(uploads.pending)
        /\ initialConcentrations' = newConcentrations
        \* diagram1.updateFeedMask(enhancedEdgeMap)
        /\ feedMaskTexture' =
              IF feedMaskTexture.present
              THEN [present |-> TRUE, data |-> normalized(newEnhancedEdges)]
              ELSE feedMaskTexture
        /\ lastUpdate' = [called |-> TRUE, arg |-> newEnhancedEdges,
                          mask |-> normalized(newEnhancedEdges),
                          handed |-> feedMaskTexture.present,
                          warned |-> Len(newEnhancedEdges) # NCells]
        \* diagram1.reloadInitialBitmap()
        /\ source_bitmap' = initial_bitmap(fillRect, newConcentrations)
        /\ paintedFrom' = newConcentrations
        \* diagram1.reset()
        /\ \E m \in {reset(Machine, tick, source_bitmap')} :
               /\ buffer_textures' = m.tex
               /\ currentOutputIn' = m.cur
               /\ lastRender' = m.last
               /\ lastSeed' = [m.note EXCEPT !.data = newConcentrations]
        /\ uploads' = [uploads EXCEPT !.pending = Remove(@, i),
                                      !.crossed = @ \/ i > 1]
        /\ log' = << >>
        /\ reloads' = 0
        /\ UNCHANGED << defaultSample, tick, screen >>

\* createImageBitmap rejects: the handler ends at its await.
DecodeFailed(i) ==
    /\ i \in 1 .. Len(uploads.pending)
    /\ uploads' = [uploads EXCEPT !.pending = Remove(@, i),
                                  !.crossed = @ \/ i > 1]
    /\ log' = << >>
    /\ reloads' = 0
    /\ UNCHANGED << buffer_textures, currentOutputIn, feedMaskTexture,
                    defaultSample, source_bitmap, initialConcentrations, tick,
                    screen, lastRender, lastUpdate, paintedFrom, lastSeed >>

PageNext ==
    \/ \E cv \in DatasetVisible, vs \in VisibilityStates : FrameSkipped(cv, vs)
    \/ \E cv \in DatasetVisible, vs \in VisibilityStates, us \in Uniforms :
          Frame(cv, vs, us)
    \/ Reset
    \/ \E f \in Files : UploadChange(<< f >>)
    \/ UploadChange(<< >>)
    \/ \E i \in 1 .. MaxUploads : UploadDecoded(i)
    \/ \E i \in 1 .. MaxUploads : DecodeFailed(i)

PageSpec == PageInit /\ [][PageNext]_vars

(***************************************************************************)
(* Properties.                                                             *)
(***************************************************************************)
RenderOps == {"run", "reset"}
LogIndex == 1 .. Len(log)
Steps == {k \in LogIndex : log[k].op = "run"}
Calls == {k \in LogIndex : log[k].op = "uniforms"}
ReadBuffer == buffer_textures[currentOutputIn]
\* the value a byte of the seed bitmap has as a texel
Level(byte) == (byte * Q) \div 255
Hidden(cv, vs) == cv = "hidden" \/ vs = "hidden"

\* C1: in every reachable state the role index is 0 or 1, and every render
\* into a simulation buffer, a stencil step or a reset, in a frame or outside
\* one, sampled the other buffer of the pair.
C1_ReadWriteIsolation ==
    /\ currentOutputIn \in {0, 1}
    /\ lastRender.op \in RenderOps
    /\ lastRender.rd \in {0, 1}
    /\ lastRender.wr = 1 - lastRender.rd
    /\ \A k \in LogIndex :
          log[k].op \in RenderOps =>
             log[k].rd \in {0, 1} /\ log[k].wr = 1 - log[k].rd

\* a frame of the second tick or later that both re-seeded and stepped
C1_Witness ==
    /\ tick >= 2
    /\ \E j \in LogIndex, k \in LogIndex :
          log[j].op = "reset" /\ log[k].op = "run" /\ log[k].rd = 1

C3_UpdateSetsLocalFeed ==
    (lastUpdate.called /\ Len(lastUpdate.arg) = NCells) =>
       \A k \in Steps :
          \A c \in Cells :
             log[k].lf[c] = Mul(log[k].u.feed, lastUpdate.arg[c + 1])

\* C4, as claimed: at the end of a frame that ran, the colours on the screen
\* are those of the read buffer, the one the frame's last step wrote.
C4_ScreenShowsLastStep ==
    (Len(log) > 0 /\ log[Len(log)].op = "draw") =>
       screen = [c \in Cells |-> colorize_glsl(ReadBuffer[c], ReadBuffer[c])]

\* C5: in a frame, a pass whose parameters carry reset = true re-seeds right
\* after the parameters are obtained and right before the step of that same
\* pass, and the step samples the buffer the reset rendered into; a pass
\* whose parameters carry reset = false steps without re-seeding.
C5_ResetRightBeforeItsStep ==
    \A k \in LogIndex :
       /\ log[k].op = "uniforms" =>
             IF log[k].u.reset
             THEN /\ k + 2 <= Len(log)
                  /\ log[k + 1].op = "reset"
                  /\ log[k + 2].op = "run"
                  /\ log[k + 2].u = log[k].u
                  /\ log[k + 2].rd = log[k + 1].wr
             ELSE /\ k + 1 <= Len(log)
                  /\ log[k + 1].op = "run"
                  /\ log[k + 1].u = log[k].u
       /\ log[k].op = "reset" =>
             k > 1 /\ log[k - 1].op = "uniforms" /\ log[k - 1].u.reset

\* a frame with a pass that re-seeded and a pass that did not
C5_Witness ==
    \E j \in Calls, k \in Calls : log[j].u.reset /\ ~ log[k].u.reset

\* C6, as claimed: reset() renders into the buffer that is the write buffer
\* when it is called, then exchanges the roles: the role index after it
\* differs from the one before, and the seeded buffer is the read buffer.
C6_ResetPaintsWriteBufferAndCommits ==
    lastRender.op = "reset" =>
       /\ lastRender.wr = 1 - lastRender.pre
       /\ lastRender.post # lastRender.pre
       /\ currentOutputIn = lastRender.wr

\* C7: updateFeedMask, with a field of any length, leaves both buffers, the
\* role index and the seed bitmap as they were.
C7_UpdateFeedMaskKeepsBuffers ==
    [][(\E f \in UpdateFields : UpdateFeedMask(f)) =>
          UNCHANGED << buffer_textures, currentOutputIn, source_bitmap >>]_vars

\* a mask of the wrong length was passed after a frame had stepped
C7_Witness ==
    /\ lastUpdate.called
    /\ lastUpdate.warned
    /\ lastRender.op = "run"
    /\ log = << >>

\* C8: for a field whose length is not size * size, updateFeedMask warns, and
\* the mask it goes on with has length size * size: the supplied entries in
\* order, as many as fit, then zeros; that mask is the one the texture gets.
C8_MismatchedMaskNormalized ==
    (lastUpdate.called /\ Len(lastUpdate.arg) # NCells) =>
       /\ lastUpdate.warned
       /\ DOMAIN lastUpdate.mask = 1 .. NCells
       /\ \A i \in 1 .. NCells :
             lastUpdate.mask[i] =
                IF i <= Len(lastUpdate.arg) THEN lastUpdate.arg[i] ELSE 0
       /\ lastUpdate.handed => feedMaskTexture.data = lastUpdate.mask

\* a field one short was passed to a session that has a mask texture
C8_Witness ==
    /\ lastUpdate.called
    /\ lastUpdate.handed
    /\ Len(lastUpdate.arg) = NCells - 1
    /\ lastUpdate.arg[1] > 0

\* C9: a frame callback that finds the canvas or the document hidden calls
\* nothing and draws nothing: buffers, role index, feed mask, seed bitmap
\* and screen are after it as before.
C9_HiddenFrameChangesNothing ==
    [][\A cv \in DatasetVisible, vs \in VisibilityStates :
          (Hidden(cv, vs) /\ \E us \in Uniforms : FrameCallback(cv, vs, us)) =>
             /\ log' = << >>
             /\ UNCHANGED << buffer_textures, currentOutputIn, feedMaskTexture,
                             source_bitmap, screen, lastRender >>]_vars

\* the first frame stepped and the second did not
C9_Witness ==
    /\ tick = 2
    /\ log = << >>
    /\ lastRender.op = "run"
    /\ lastRender.tick = 1

C11_ReloadKeepsLiveState ==
    [][ReloadInitialBitmap =>
          /\ UNCHANGED << buffer_textures, currentOutputIn, feedMaskTexture >>
          /\ paintedFrom = initialConcentrations =>
                source_bitmap' = source_bitmap]_vars

\* reloadInitialBitmap() was called twice in a row over a pattern the steps
\* of a frame had left, with image data that is not what the session was
\* built from
C11_Witness ==
    /\ reloads = 2
    /\ lastRender.op = "run"
    /\ buffer_textures[0] # buffer_textures[1]
    /\ lastSeed.data # initialConcentrations

\* The step as the specification words it, from the sampled field old, the
\* mask and the parameters u: neighbours by cell index, wrapping at the edges.
Wrap(i) == i % Size
At(old, x, y) == old[Wrap(y) * Size + Wrap(x)]
Blur(old, c, k) ==
    LET x == c % Size
        y == c \div Size
    IN  Mul(Q \div 5, At(old, x, y + 1)[k] + At(old, x, y - 1)[k]
                        + At(old, x + 1, y)[k] + At(old, x - 1, y)[k])
      + Mul(Q \div 20, At(old, x + 1, y + 1)[k] + At(old, x - 1, y + 1)[k]
                         + At(old, x + 1, y - 1)[k] + At(old, x - 1, y - 1)[k])
      - old[c][k]
GrayScott(old, mask, u, dt, c) ==
    LET A == old[c][1]
        B == old[c][2]
        ABB == Mul(Mul(A, B), B)
        f == Mul(u.feed, mask[c + 1])
    IN  << A + Mul(dt, Mul(u.diffusion_rate, Blur(old, c, 1)) - ABB
                         + Mul(f, Q - A)),
           B + Mul(dt, Mul(Mul(Q \div 2, u.diffusion_rate), Blur(old, c, 2))
                         + ABB - Mul(u.kill + f, B)) >>

LastStep == CHOOSE k \in Steps : \A j \in Steps : j <= k
Cardinal(p) ==
    {c \in Cells : \E d \in {0 - 1, 1} :
        \/ c = Wrap(p \div Size) * Size + Wrap((p % Size) + d)
        \/ c = Wrap((p \div Size) + d) * Size + Wrap(p % Size)}
Diagonal(p) ==
    {c \in Cells : \E d \in {0 - 1, 1}, e \in {0 - 1, 1} :
        c = Wrap((p \div Size) + e) * Size + Wrap((p % Size) + d)}

\* C12: a stencil step under a record of the five documented parameters,
\* with diffusion_step = 1 and the engine's dt = 1, writes, in every cell, the
\* A' and B' of the Gray-Scott update over the sampled field, neighbours
\* wrapping round the edges; and on a field with A = 1 in one cell, A = 0
\* elsewhere and B = 0 throughout, under a mask of ones, it adds to A a
\* diffusion term of 0.7 * 0.2 in the four cardinal neighbours and
\* 0.7 * 0.05 (rounded to the grid) in the four diagonal ones, the cells
\* across an edge included, and leaves B = 0 in every cell.
C12_StencilIsGrayScott ==
    (Steps # {} /\ log[LastStep].u \in ParamSet
        /\ log[LastStep].u.diffusion_step = Q) =>
       LET k == LastStep
           old == buffer_textures[log[k].rd]
           new == buffer_textures[log[k].wr]
           u == log[k].u
       IN  /\ \A c \in Cells :
                 new[c] = GrayScott(old, feedMaskTexture.data, u, Q, c)
           /\ \A p \in Cells :
                 (old = paint_from_bitmap([c \in Cells |-> << 0, 0 >>],
                                          source_texture(PointBitmap(p)))
                    /\ feedMaskTexture.data = OnesMask) =>
                    /\ \A c \in Cardinal(p) :
                          new[c][1] - Mul(u.feed, Q) = (7 * 2 * Q) \div 100
                    /\ \A c \in Diagonal(p) :
                          new[c][1] - Mul(u.feed, Q) = (7 * 5 * Q) \div 1000
                    /\ \A c \in Cells : new[c][2] = 0

\* a step over the field with A = 1 only in the corner cell 0, under a mask
\* of ones: the cell at the other end of its row is a cardinal neighbour
C12_Witness ==
    /\ Steps # {}
    /\ log[LastStep].u \in ParamSet
    /\ buffer_textures[log[LastStep].rd] =
          paint_from_bitmap(Blank, source_texture(PointBitmap(0)))
    /\ feedMaskTexture.data = OnesMask
    /\ (Size - 1) \in Cardinal(0)
    /\ buffer_textures[log[LastStep].wr][Size - 1][1] > 0

\* C13, as claimed: in a session built without a feed mask every stencil
\* step computes, in every cell, a local feed rate equal to feed, as a
\* session built with a mask of ones does.
C13_AbsentMaskIsOnes ==
    (~ feedMaskTexture.present) =>
       \A k \in Steps :
          \A c \in Cells :
             log[k].lf[c] = local_feed([feed |-> log[k].u.feed,
                                        feed_mask |-> OnesMask], c)

\* A session made afresh with the seed bitmap and the mask, then stepped
\* under the parameters us, one after the other: its read buffer.
RECURSIVE Stepped(_, _, _, _)
Stepped(m, us, fmt, dflt) ==
    IF us = << >> THEN m.tex[m.cur]
    ELSE CHOOSE b \in {Stepped(n, Tail(us), fmt, dflt) :
                          n \in {run(m, Head(us), 0, fmt, dflt)}} : TRUE
Fresh(bitmap) ==
    reset([tex |-> [i \in 0 .. 1 |-> Blank], cur |-> 0, log |-> << >>,
           last |-> NoRender, note |-> NoSeed], 0, bitmap)
Opaque(bitmap) == \A c \in Cells : bitmap[c][4] = 255

\* C14: whatever the buffers held and whatever the role index was when
\* reset() painted a fully opaque seed bitmap, the read buffer after the
\* steps made since is the read buffer of a session made afresh with that
\* bitmap and the same mask and stepped under the same parameters.
C14_ReseedForgetsHistory ==
    Opaque(lastSeed.bitmap) =>
       ReadBuffer = Stepped(Fresh(lastSeed.bitmap), lastSeed.us,
                            feedMaskTexture, defaultSample)

\* reset() found the role index 1 and buffers left by earlier steps, painted
\* an opaque bitmap, and a step was made since
C14_Witness ==
    /\ Opaque(lastSeed.bitmap)
    /\ lastSeed.cur = 1
    /\ lastSeed.dirty
    /\ Len(lastSeed.us) >= 1
    /\ ReadBuffer # Blank

\* C15: a pass of the frame loop that does not re-seed makes one stencil
\* step, and that step leaves the buffer it samples, the feed mask and the
\* seed bitmap as they were; it writes the other buffer, which becomes the
\* read buffer, and what it writes is the stencil shader's value for the
\* sampled buffer, the feed mask and the parameters of that pass.
C15_StepWritesOnlyWriteBuffer ==
    [][(tick' = tick + 1 /\ \A j \in 1 .. Len(log') : log'[j].op # "reset") =>
          \E k \in 1 .. Len(log') :
             /\ log'[k].op = "run"
             /\ \A j \in 1 .. Len(log') : log'[j].op = "run" => j = k
             /\ log'[k].rd = currentOutputIn
             /\ log'[k].wr = 1 - currentOutputIn
             /\ currentOutputIn' = 1 - currentOutputIn
             /\ buffer_textures'[currentOutputIn] = buffer_textures[currentOutputIn]
             /\ UNCHANGED << feedMaskTexture, source_bitmap >>
             /\ buffer_textures'[1 - currentOutputIn] =
                   karlsims_reactiondiffusion(
                      step_props(buffer_textures[currentOutputIn], log'[k].u,
                                 feedMaskTexture, defaultSample))]_vars

\* a step that did not re-seed wrote over a buffer an earlier step had
\* sampled, the two buffers holding different fields afterwards
C15_Witness ==
    /\ lastRender.op = "run"
    /\ Steps # {}
    /\ \A j \in LogIndex : log[j].op # "reset"
    /\ Len(lastSeed.us) >= 2
    /\ buffer_textures[0] # buffer_textures[1]

\* C16, as claimed: reset() leaves in every cell of the read buffer the blend
\* (1 - alpha) * old + alpha * new of the value old the cell held in the
\* read buffer right before the call and the seed pixel's value new, alpha
\* being the seed pixel's alpha: unchanged for alpha = 0, new for alpha = 1.
C16_ReseedBlendsOverReadBuffer ==
    [][Reset =>
          \A c \in Cells :
             LET old == buffer_textures[currentOutputIn][c]
                 new == source_texture(source_bitmap)[c]
                 after == buffer_textures'[currentOutputIn'][c]
             IN  /\ after = << mix(old[1], new[1], new[4]),
                               mix(old[2], new[2], new[4]) >>
                 /\ new[4] = 0 => after = old
                 /\ new[4] = Q => after = << new[1], new[2] >>]_vars

\* C17: only reloadInitialBitmap() has the initial-bitmap procedure run and
\* only it changes the seed bitmap; reset(), called directly or by a pass of
\* a frame, paints the bitmap as the procedure last painted it, at
\* construction or at the last reloadInitialBitmap(), so that image data
\* changed since then shows in no buffer before reloadInitialBitmap() and
\* then reset() have run.
C17_ResetPaintsLastPaintedBitmap ==
    [][/\ (paintedFrom' # paintedFrom \/ source_bitmap' # source_bitmap) =>
             ReloadInitialBitmap
       /\ lastSeed'.bitmap \in
             {lastSeed.bitmap, initial_bitmap(fillRect, paintedFrom)}
       /\ Reset =>
             /\ lastSeed'.bitmap = initial_bitmap(fillRect, paintedFrom)
             /\ \A c \in Cells :
                   buffer_textures'[currentOutputIn'][c] =
                      << Level(brightness(paintedFrom[c + 1])),
                         Level(brightness(paintedFrom[c + 1])) >>]_vars

\* reset() ran while the page's image data was no longer what the seed
\* bitmap had been painted from: it painted the older image
C17_Witness ==
    /\ lastRender.op = "reset"
    /\ lastRender.tick >= 1
    /\ log = << >>
    /\ lastSeed.bitmap # initial_bitmap(fillRect, lastSeed.data)
    /\ \E c \in Cells : ReadBuffer[c][1] # Level(brightness(lastSeed.data[c + 1]))

\* the record u, cut down to the five documented parameters
Documented(u) == [k \in DOMAIN NoU |-> u[k]]

\* C18, as claimed: whatever record the parameter source returns, keys such
\* as dt, resolution, u_texture or feed_mask included, the stencil step is
\* evaluated with dt = 1, resolution = size, the engine's read buffer and the
\* engine's feed mask, and writes what it would write under the five
\* documented parameters of that record alone.
C18_EngineUniformsFixed ==
    Steps # {} =>
       LET k == LastStep
           sampled == buffer_textures[log[k].rd]
           p == step_props(sampled, log[k].u, feedMaskTexture, defaultSample)
       IN  /\ p.dt = Q
           /\ p.resolution = Size
           /\ p.u_texture = sampled
           /\ p.feed_mask = feed_mask_prop(feedMaskTexture, defaultSample)
           /\ buffer_textures[log[k].wr] =
                 karlsims_reactiondiffusion(
                    step_props(sampled, Documented(log[k].u), feedMaskTexture,
                               defaultSample))

\* C19: the rest of the upload handler runs as one step, and in every state
\* of the page, uploads overlapping and resolving in any order, the feed
\* mask is the edge map of the page's image data, the seed bitmap is painted
\* from that data, the last re-seed painted that bitmap, that data is the
\* data of one of the images, every step of the last frame used that mask,
\* and the read buffer is what a session made afresh from that bitmap and
\* that mask holds after the steps made since the re-seed.
C19_UploadIsOneStep ==
    /\ \E f \in Files : initialConcentrations = get_image_data(f)
    /\ feedMaskTexture =
          [present |-> TRUE, data |-> enhanceEdges(initialConcentrations, Size)]
    /\ source_bitmap = initial_bitmap(fillRect, initialConcentrations)
    /\ paintedFrom = initialConcentrations
    /\ lastSeed.bitmap = source_bitmap
    /\ lastSeed.data = initialConcentrations
    /\ \A k \in Steps :
          \A c \in Cells :
             log[k].lf[c] =
                Mul(log[k].u.feed, enhanceEdges(initialConcentrations, Size)[c + 1])
    /\ ReadBuffer = Stepped(Fresh(source_bitmap), lastSeed.us,
                            feedMaskTexture, defaultSample)

\* two uploads were pending together, the later one resolved first, both
\* handlers have finished, and a frame has stepped since
C19_Witness ==
    /\ uploads.crossed
    /\ uploads.started = 2
    /\ uploads.pending = << >>
    /\ lastUpdate.called
    /\ Steps # {}
    /\ Len(lastSeed.us) >= 1
    /\ \E c \in Cells : feedMaskTexture.data[c + 1] > 0

====
